---- MODULE Spec2Model ----
(***************************************************************************)
(* Model of the hybrid knowledge retrieval engine of rpgagents:            *)
(*   - GameSearchTool._run / index_documents  (tools/game_search_tool.py)  *)
(*   - determine_provider_and_search          (main.py)                    *)
(*   - WebSearchTool.search and its backends  (tools/web_search_tool.py)   *)
(*                                                                         *)
(* Texts are sequences of atoms (strings).  Game names and collection keys *)
(* are spelled character by character, because the code lower-cases them   *)
(* and replaces substrings in them; the phrases the code searches for      *)
(* ("Web Index", "Local Source") are single atoms, wherever they occur.    *)
(* Distances are in hundredths (0.45 is 45).                               *)
(***************************************************************************)
EXTENDS Integers, Sequences, FiniteSets, TLC

-----------------------------------------------------------------------------
(* Bounds of the model *)

\* number of top-level calls (resolve or index_documents) in one behaviour
MaxCalls == 2

\* length of the game names whose normalization is explored
MaxLen == 3

-----------------------------------------------------------------------------
(* Strings *)

UpperChars ==
  <<"A","B","C","D","E","F","G","H","I","J","K","L","M",
    "N","O","P","Q","R","S","T","U","V","W","X","Y","Z">>

LowerChars ==
  <<"a","b","c","d","e","f","g","h","i","j","k","l","m",
    "n","o","p","q","r","s","t","u","v","w","x","y","z">>

\* str.lower() on one character
LowerChar(c) ==
  IF \E i \in DOMAIN UpperChars : UpperChars[i] = c
  THEN LowerChars[CHOOSE i \in DOMAIN UpperChars : UpperChars[i] = c]
  ELSE c

\* str.lower()
Lower(s) == [i \in 1..Len(s) |-> LowerChar(s[i])]

\* str.startswith(p)
StartsWith(s, p) == Len(s) >= Len(p) /\ SubSeq(s, 1, Len(p)) = p

\* str.replace(old, new): every non-overlapping occurrence, left to right
RECURSIVE Replace(_, _, _)
Replace(s, old, new) ==
  IF s = <<>> THEN <<>>
  ELSE IF StartsWith(s, old)
       THEN new \o Replace(SubSeq(s, Len(old) + 1, Len(s)), old, new)
       ELSE <<Head(s)>> \o Replace(Tail(s), old, new)

\* `p in s` for strings
Contains(s, p) ==
  \E i \in 1..(Len(s) - Len(p) + 1) : SubSeq(s, i, i + Len(p) - 1) = p

\* sep.join(parts)
RECURSIVE Join(_, _)
Join(parts, sep) ==
  IF parts = <<>> THEN <<>>
  ELSE IF Len(parts) = 1 THEN parts[1]
       ELSE parts[1] \o sep \o Join(Tail(parts), sep)

-----------------------------------------------------------------------------
(* Game names, keys and collection names *)

NewGame  == <<"N","e","w"," ","G","a","m","e">>
NewGameH == <<"n","e","w","-","g","a","m","e">>
GameDev  == <<"G","a","m","e"," ","D","e","v">>

GameNames == {NewGame, NewGameH, GameDev}

Queries == {<<"void heart">>, <<"answer">>}

\* game_id.lower().replace(" ", "_").replace("-", "_")
NormalizeSpacesOnly(game_id) == Replace(Lower(game_id), <<" ">>, <<"_">>)
Normalize(game_id) ==
  Replace(Replace(Lower(game_id), <<" ">>, <<"_">>), <<"-">>, <<"_">>)

GamePrefix == <<"g","a","m","e","_">>

\* f"game_{normalized_game_id}"
CollectionName(normalized_game_id) == GamePrefix \o normalized_game_id

Keys == {Normalize(g) : g \in GameNames}

CollNames == {CollectionName(k) : k \in Keys}

-----------------------------------------------------------------------------
(* Acquired documents, as the web aggregator hands them to _run.            *)
(* A content is the sequence of its paragraphs, a paragraph a text; every  *)
(* paragraph here is shorter than the splitter's chunk size.               *)

ParaCharm == <<"Void Heart is a charm.">>
ParaIndex == <<"See the ", "Web Index", " page.">>
ParaBlank == <<"   ">>

UrlA == <<"http://a">>
UrlB == <<"http://b">>
UrlC == <<"http://c">>

DocA     == [href |-> UrlA, content |-> <<ParaCharm>>]
DocB     == [href |-> UrlB, content |-> <<ParaCharm, ParaIndex>>]
DocBlank == [href |-> UrlA, content |-> <<ParaBlank>>]
DocLong  == [href |-> UrlC,
             content |-> <<ParaCharm, ParaIndex, ParaCharm,
                           ParaIndex, ParaCharm, ParaIndex>>]

\* what search() may return: nothing, one document (of one chunk, of two, of
\* none, of more chunks than a query returns), several documents
WebOutputs ==
  {<<>>, <<DocA>>, <<DocB>>, <<DocBlank>>, <<DocLong>>, <<DocA, DocBlank, DocB>>}

Range(s) == {s[i] : i \in DOMAIN s}

-----------------------------------------------------------------------------
(* Chunking and indexing: GameSearchTool.index_documents *)

IsBlank(para) == \A i \in DOMAIN para : para[i] \in {" ", "   ", "\n"}

\* RecursiveCharacterTextSplitter(chunk_size=400, chunk_overlap=50).split_text:
\* one chunk per paragraph, whitespace-only pieces dropped
SplitText(content) == SelectSeq(content, LAMBDA para : ~IsBlank(para))

\* f"{game_id}_{len(all_ids)}_{j}"
ChunkId(game_id, n_ids, j) == <<game_id, n_ids, j>>

\* {"source": source, "game_id": game_id}
ChunkMetadataNoSource(source, game_id) == [source |-> game_id, game_id |-> game_id]
ChunkMetadata(source, game_id) == [source |-> source, game_id |-> game_id]

\* the loop of lines 152-157: all_chunks, all_metadatas and all_ids, zipped
RECURSIVE BuildChunks(_, _, _, _, _)
BuildChunks(game_id, documents, sources, i, acc) ==
  IF i > Len(documents) \/ i > Len(sources) THEN acc
  ELSE LET chunks == SplitText(documents[i])
           new == [j \in 1..Len(chunks) |->
                     [id       |-> ChunkId(game_id, Len(acc) + j - 1, j - 1),
                      doc      |-> chunks[j],
                      metadata |-> ChunkMetadata(sources[i], game_id)]]
       IN  BuildChunks(game_id, documents, sources, i + 1, acc \o new)

Ids(ps) == {ps[i].id : i \in DOMAIN ps}

\* chromadb collection.add when some ids may already be in the collection:
\* the library either rejects the whole batch or drops the records whose id
\* is already present, depending on its version (onDup)
AddRaises(existing, new, onDup) ==
  onDup = "raise" /\ Ids(existing) \cap Ids(new) # {}

CollectionAdd(existing, new, onDup) ==
  existing \o SelectSeq(new, LAMBDA p : p.id \notin Ids(existing))

\* index_documents(game_id, documents, sources) on the store <<colls, pas>>;
\* fault is "none", "early" (raise before get_or_create_collection) or "add"
\* (collection.add raises).  Every exception is caught (lines 168-170).
IndexDocuments(colls, pas, emb, onDup, game_id_arg, documents, sources, fault) ==
  LET game_id == Normalize(game_id_arg)
      name    == CollectionName(game_id)
      colls1  == IF name \in Range(colls) THEN colls ELSE Append(colls, name)
      chunks  == BuildChunks(game_id, documents, sources, 1, <<>>)
      failed  == \/ fault = "add"
                 \/ ~emb
                 \/ AddRaises(pas[name], chunks, onDup)
  IN  IF fault = "early" THEN [collections |-> colls, passages |-> pas]
      ELSE IF chunks = <<>> \/ failed
           THEN [collections |-> colls1, passages |-> pas]
           ELSE [collections |-> colls1,
                 passages |-> [pas EXCEPT ![name] =
                                  CollectionAdd(pas[name], chunks, onDup)]]

-----------------------------------------------------------------------------
(* Similarity query: perform_search, lines 56-68 *)

\* 0.45, the relevance threshold (line 77), and 1.0, "no match" (line 75)
Threshold == 45
NoMatchDistance == 100
\* n_results=5 (line 63)
NResults == 5

DistSeq == <<0, 45, 46>>
DistVals == Range(DistSeq)

ParaTexts == {ParaCharm, ParaIndex}

\* an embedding of the query: the distance of every passage text to it
Embeddings == [ParaTexts -> DistVals]

RECURSIVE RankFrom(_, _, _)
RankFrom(ps, d, k) ==
  IF k > Len(DistSeq) THEN <<>>
  ELSE SelectSeq(ps, LAMBDA p : d[p.doc] = DistSeq[k]) \o RankFrom(ps, d, k + 1)

Min(a, b) == IF a < b THEN a ELSE b

\* collection.query(query_texts=[query], n_results=5, include=[documents,
\* metadatas, distances]): the nearest passages, best first
QueryCollection(ps, d, n) ==
  LET ranked == RankFrom(ps, d, 1)
  IN  [i \in 1..Min(n, Len(ranked)) |->
         [doc      |-> ranked[i].doc,
          metadata |-> ranked[i].metadata,
          distance |-> d[ranked[i].doc]]]

\* line 75
BestDistance(res) == IF res # <<>> THEN res[1].distance ELSE NoMatchDistance

\* line 77: best_distance > 0.45
LowRelevanceStrict(best_distance) == best_distance >= Threshold
LowRelevance(best_distance) == best_distance > Threshold

-----------------------------------------------------------------------------
(* Result texts *)

LocalLabel == "Local Source"
WebLabel   == "Web Index"

NumTok == <<"1", "2", "3", "4", "5", "6", "7", "8", "9", "10", "11", "12">>

\* f"**[{label} {i}: {source}]**\n{doc}\n"
FormatEntry(label, i, r) ==
  <<"**[", label, " ", NumTok[i], ": ">> \o r.metadata.source \o <<"]**\n">>
    \o r.doc \o <<"\n">>

\* "\n---\n".join(formatted), lines 82-86 and 118-123
FormatResults(label, res) ==
  Join([i \in 1..Len(res) |-> FormatEntry(label, i, res[i])], <<"\n---\n">>)

\* [c.replace('game_', '') for c in existing_collections if c.startswith('game_')]
ListedGames(existing) ==
  LET mine == SelectSeq(existing, LAMBDA c : StartsWith(c, GamePrefix))
  IN  [i \in 1..Len(mine) |-> Replace(mine[i], GamePrefix, <<>>)]

\* lines 98-101
NoResultsMessage(normalized_game_id, existing) ==
  <<"No local documentation indexed for '">> \o normalized_game_id
    \o <<"' and web search returned no results. Available games: ">>
    \o Join(ListedGames(existing), <<", ">>) \o <<". ">>

\* line 115
IndexedNoResultsMessage ==
  <<"Indexed new content but search yielded no results. This is unexpected.">>

\* line 129
ErrorMessage(e) ==
  <<"Error searching local docs: ">> \o e
    \o <<". Use 'Web Search for Game Information' instead.">>

\* what _run hands to its caller: a returned text, or an exception
Returned(text) == [raised |-> FALSE, text |-> text]

\* the handler of lines 125-129
RunExceptPropagates(e) == [raised |-> TRUE, text |-> e]
RunExcept(e) == Returned(ErrorMessage(e))

\* the arguments of web_tool.search, line 95
WebSearchArgsNormalized(game_id, normalized_game_id, q) ==
  [game |-> normalized_game_id, query |-> q]
WebSearchArgs(game_id, normalized_game_id, q) == [game |-> game_id, query |-> q]

\* determine_provider_and_search, lines 26-32
Provider(search_result) ==
  IF Contains(search_result, <<WebLabel>>) THEN "gemini"
  ELSE IF Contains(search_result, <<LocalLabel>>) THEN "ollama"
       ELSE "gemini"

-----------------------------------------------------------------------------
(* State of the retrieval router *)

VARIABLES
  collections,          \* the store: names of the collections, in creation order
  passages,             \* the store: the passages of every collection
  embeddings,           \* self._embeddings: TRUE when loaded, FALSE when None
  onDuplicateId,        \* what the store library does with an id it already holds
  pc,                   \* position in determine_provider_and_search / _run
  game_name, query,     \* the arguments of the running call
  existing_collections, \* line 53
  results,              \* the last result of perform_search
  web_results,          \* line 95
  outcome,              \* what _run handed to its caller
  provider,             \* what determine_provider_and_search returned
  calls,                \* history: the calls _run made to its collaborators
  probe,                \* history: how the local probe of this call ended
  probe_results,        \* history: what the local probe returned
  faults,               \* history: the steps of this call that raised
  passages_before,      \* history: the passages when this call started
  nCalls                \* number of top-level calls started

routerVars ==
  <<collections, passages, embeddings, onDuplicateId, pc, game_name, query,
    existing_collections, results, web_results, outcome, provider, calls,
    probe, probe_results, faults, passages_before, nCalls>>

VARIABLES
  s_pc,                 \* position in WebSearchTool.search
  s_game, s_query,      \* its arguments
  search_queries,       \* lines 277-289
  sq,                   \* index of the query the loop of line 294 is at
  all_results,          \* line 291
  unique_results,       \* line 333
  fetch_i,              \* index of the result the loop of line 341 is at
  processed_results,    \* line 340
  s_outcome,            \* what search handed to its caller
  fetched,              \* history: the URLs fetched, in order
  broad,                \* history: the broader last-resort query was sent
  blocked_offered,      \* history: a backend offered a blocked URL
  q_log,                \* history: the backend calls made for the last query
  last_fetch            \* history: how the last page fetch ended

searchVars ==
  <<s_pc, s_game, s_query, search_queries, sq, all_results, unique_results,
    fetch_i, processed_results, s_outcome, fetched, broad, blocked_offered,
    q_log, last_fetch>>

VARIABLES
  n_pc,                 \* position in the normalization of one game name
  n_name,               \* a game name, as a caller gives it
  n_key,                \* normalized_game_id of _run, line 49
  n_index_key           \* game_id of index_documents, line 136

normVars == <<n_pc, n_name, n_key, n_index_key>>

NoOutcome == [raised |-> FALSE, text |-> <<>>]
NoProvider == [name |-> "none", text |-> <<>>]

normalized_game_id == Normalize(game_name)
collection_name == CollectionName(normalized_game_id)

Call(op, g, q) == [op |-> op, game |-> g, query |-> q]

\* GameSearchTool.__init__ on an empty store directory
RouterInit ==
  /\ collections = <<>>
  /\ passages = [c \in CollNames |-> <<>>]
  /\ embeddings \in BOOLEAN
  /\ onDuplicateId \in {"skip", "raise"}
  /\ pc = "idle"
  /\ game_name = <<>>
  /\ query = <<>>
  /\ existing_collections = <<>>
  /\ results = <<>>
  /\ web_results = <<>>
  /\ outcome = NoOutcome
  /\ provider = NoProvider
  /\ calls = <<>>
  /\ probe = "none"
  /\ probe_results = <<>>
  /\ faults = {}
  /\ passages_before = passages
  /\ nCalls = 0

\* an exception reaches the handler of _run
Raise(step, e) ==
  /\ outcome' = RunExcept(e)
  /\ faults' = faults \cup {step}
  /\ pc' = "returned"

\* determine_provider_and_search(game_name, query) calls _run (line 24)
RunStart ==
  /\ pc = "idle"
  /\ nCalls < MaxCalls
  /\ \E g \in GameNames, q \in Queries :
       /\ game_name' = g
       /\ query' = q
  /\ nCalls' = nCalls + 1
  /\ pc' = "list"
  /\ existing_collections' = <<>>
  /\ results' = <<>>
  /\ web_results' = <<>>
  /\ outcome' = NoOutcome
  /\ provider' = NoProvider
  /\ calls' = <<>>
  /\ probe' = "none"
  /\ probe_results' = <<>>
  /\ faults' = {}
  /\ passages_before' = passages
  /\ UNCHANGED <<collections, passages, embeddings, onDuplicateId>>
  /\ UNCHANGED <<searchVars, normVars>>

\* line 53: list_collections
ListCollections ==
  /\ pc = "list"
  /\ calls' = Append(calls, Call("list", <<>>, <<>>))
  /\ \/ /\ existing_collections' = collections
        /\ pc' = IF collection_name \in Range(collections) THEN "probe" ELSE "web"
        /\ probe' = IF collection_name \in Range(collections) THEN probe ELSE "absent"
        /\ UNCHANGED <<outcome, faults>>
     \/ /\ Raise("list", <<"list_collections failed">>)
        /\ UNCHANGED <<existing_collections, probe>>
  /\ UNCHANGED <<collections, passages, embeddings, onDuplicateId, game_name,
                 query, results, web_results, provider, probe_results,
                 passages_before, nCalls>>
  /\ UNCHANGED <<searchVars, normVars>>

\* perform_search raises: the collection is missing, there is no embedding
\* function for query_texts, or the store fails
SearchMustRaise == collection_name \notin Range(collections) \/ ~embeddings

\* lines 70-86: the local probe and the relevance decision
ProbeLocal ==
  /\ pc = "probe"
  /\ calls' = Append(calls, Call("query", collection_name, query))
  /\ \/ /\ ~SearchMustRaise
        /\ \E d \in Embeddings :
             LET res == QueryCollection(passages[collection_name], d, NResults)
                 best_distance == BestDistance(res)
             IN  /\ results' = res
                 /\ probe_results' = res
                 /\ probe' = "returned"
                 /\ IF LowRelevance(best_distance)
                    THEN /\ pc' = "web"
                         /\ UNCHANGED outcome
                    ELSE IF res # <<>>
                         THEN /\ outcome' = Returned(FormatResults(LocalLabel, res))
                              /\ pc' = "returned"
                         ELSE /\ pc' = "web"
                              /\ UNCHANGED outcome
        /\ UNCHANGED faults
     \/ /\ Raise("probe", <<"query failed">>)
        /\ probe' = "raised"
        /\ UNCHANGED <<results, probe_results>>
  /\ UNCHANGED <<collections, passages, embeddings, onDuplicateId, game_name,
                 query, existing_collections, web_results, provider,
                 passages_before, nCalls>>
  /\ UNCHANGED <<searchVars, normVars>>

\* `if not web_results`, line 97
NoWebResultsNever(web) == FALSE
NoWebResults(web) == web = <<>>

\* lines 90-101: the web aggregator is called; nothing found ends the call
WebSearch ==
  /\ pc = "web"
  /\ LET a == WebSearchArgs(game_name, normalized_game_id, query)
     IN  calls' = Append(calls, Call("search", a.game, a.query))
  /\ \/ \E out \in WebOutputs :
          /\ web_results' = out
          /\ IF NoWebResults(out)
             THEN /\ outcome' = Returned(NoResultsMessage(normalized_game_id,
                                                          existing_collections))
                  /\ pc' = "returned"
             ELSE /\ pc' = "index"
                  /\ UNCHANGED outcome
          /\ UNCHANGED faults
     \/ /\ Raise("search", <<"search failed">>)
        /\ UNCHANGED web_results
  /\ UNCHANGED <<collections, passages, embeddings, onDuplicateId, game_name,
                 query, existing_collections, results, provider, probe,
                 probe_results, passages_before, nCalls>>
  /\ UNCHANGED <<searchVars, normVars>>

Contents(docs) == [i \in DOMAIN docs |-> docs[i].content]
Hrefs(docs)    == [i \in DOMAIN docs |-> docs[i].href]

IndexFaults == {"none", "early", "add"}

\* lines 103-108: the found documents are indexed
IndexWebResults ==
  /\ pc = "index"
  /\ calls' = Append(calls, Call("index", normalized_game_id, <<>>))
  /\ \E fault \in IndexFaults :
       LET st == IndexDocuments(collections, passages, embeddings, onDuplicateId,
                                normalized_game_id, Contents(web_results),
                                Hrefs(web_results), fault)
       IN  /\ collections' = st.collections
           /\ passages' = st.passages
           /\ faults' = IF fault = "none" THEN faults ELSE faults \cup {"index"}
  /\ pc' = "requery"
  /\ UNCHANGED <<embeddings, onDuplicateId, game_name, query,
                 existing_collections, results, web_results, outcome, provider,
                 probe, probe_results, passages_before, nCalls>>
  /\ UNCHANGED <<searchVars, normVars>>

\* lines 110-123: the collection is queried again
Requery ==
  /\ pc = "requery"
  /\ calls' = Append(calls, Call("query", collection_name, query))
  /\ \/ /\ ~SearchMustRaise
        /\ \E d \in Embeddings :
             LET res == QueryCollection(passages[collection_name], d, NResults)
             IN  /\ results' = res
                 /\ outcome' = IF res = <<>>
                               THEN Returned(IndexedNoResultsMessage)
                               ELSE Returned(FormatResults(WebLabel, res))
        /\ pc' = "returned"
        /\ UNCHANGED faults
     \/ /\ Raise("requery", <<"query failed">>)
        /\ UNCHANGED results
  /\ UNCHANGED <<collections, passages, embeddings, onDuplicateId, game_name,
                 query, existing_collections, web_results, provider, probe,
                 probe_results, passages_before, nCalls>>
  /\ UNCHANGED <<searchVars, normVars>>

\* main.py lines 26-32: the provider is chosen from the returned text
ChooseProvider ==
  /\ pc = "returned"
  /\ provider' = IF outcome.raised THEN NoProvider
                  ELSE [name |-> Provider(outcome.text), text |-> outcome.text]
  /\ pc' = "idle"
  /\ UNCHANGED <<collections, passages, embeddings, onDuplicateId, game_name,
                 query, existing_collections, results, web_results, outcome,
                 calls, probe, probe_results, faults, passages_before, nCalls>>
  /\ UNCHANGED <<searchVars, normVars>>

\* index_documents called on its own (it is a public method of the tool)
IndexCall ==
  /\ pc = "idle"
  /\ nCalls < MaxCalls
  /\ \E g \in GameNames, docs \in WebOutputs, fault \in IndexFaults :
       LET st == IndexDocuments(collections, passages, embeddings, onDuplicateId,
                                g, Contents(docs), Hrefs(docs), fault)
       IN  /\ collections' = st.collections
           /\ passages' = st.passages
           /\ game_name' = g
           /\ web_results' = docs
           /\ faults' = IF fault = "none" THEN {} ELSE {"index"}
  /\ nCalls' = nCalls + 1
  /\ calls' = <<Call("index", Normalize(game_name'), <<>>)>>
  /\ passages_before' = passages
  /\ query' = <<>>
  /\ existing_collections' = <<>>
  /\ results' = <<>>
  /\ outcome' = NoOutcome
  /\ provider' = NoProvider
  /\ probe' = "none"
  /\ probe_results' = <<>>
  /\ UNCHANGED <<embeddings, onDuplicateId, pc>>
  /\ UNCHANGED <<searchVars, normVars>>

-----------------------------------------------------------------------------
(* The web search aggregator: WebSearchTool (tools/web_search_tool.py).     *)
(* A URL is a sequence of atoms, its domain names being atoms of their own. *)
(* A title, snippet or page text is known by its length, the number of its  *)
(* characters in the non-English ranges, and a tag telling where it is from.*)

\* a subset of ENGLISH_WIKI_DOMAINS (lines 13-17) and of BLOCKED_DOMAINS
\* (lines 20-27)
EnglishWikiDomains == {"fandom.com", "ign.com", "fextralife.com"}
BlockedDomains == {"baidu.com", "zhihu.com", "bilibili.com"}

\* url.lower(), atom by atom
LowerAtom(a) ==
  CASE a = "ZHIHU.COM" -> "zhihu.com"
    [] a = "Fandom.com" -> "fandom.com"
    [] OTHER -> a

UrlLower(url) == [i \in DOMAIN url |-> LowerAtom(url[i])]

\* any(blocked in url.lower() for blocked in BLOCKED_DOMAINS)
IsBlockedHostOnly(url) ==
  \E i \in DOMAIN url : i <= 3 /\ UrlLower(url)[i] \in BlockedDomains
IsBlocked(url) == \E i \in DOMAIN url : UrlLower(url)[i] \in BlockedDomains

\* _is_english_site, lines 52-59
IsEnglishSite(url) ==
  IF IsBlocked(url) THEN FALSE
  ELSE \E i \in DOMAIN url : UrlLower(url)[i] \in EnglishWikiDomains

Txt(tag, len, non_english) == [tag |-> tag, len |-> len, non_english |-> non_english]

\* _is_english_content, lines 61-70: not empty, and at most 10% of the
\* characters in the non-English ranges
IsEnglishContent(text) ==
  IF text.len = 0 THEN FALSE
  ELSE IF text.non_english * 10 > text.len THEN FALSE
       ELSE TRUE

\* self._max_results (line 49) and self._max_content_length (line 50)
MaxResults == 10
MaxContentLength == 3000

Take(s, n) == SubSeq(s, 1, Min(n, Len(s)))

TitleOk  == Txt("title", 20, 0)
TitleCjk == Txt("title-cjk", 10, 5)

SnipOk    == Txt("snippet", 120, 0)
SnipEdge  == Txt("snippet-edge", 60, 6)
SnipShort == Txt("snippet-short", 30, 0)
SnipCjk   == Txt("snippet-cjk", 60, 30)
SnipHuge  == Txt("snippet-huge", 4000, 0)

\* a search result as a backend gives it; has_href is FALSE when the backend's
\* record has no "href" key
Result(title, href, body) ==
  [title |-> title, href |-> href, body |-> body, has_href |-> TRUE]

T1 == Result(TitleOk, <<"https://", "hollowknight.", "fandom.com", "/wiki/Void_Heart">>, SnipOk)
T2 == Result(TitleOk, <<"https://", "www.", "ign.com", "/wikis/hollow-knight">>, SnipShort)
T3 == Result(TitleOk, <<"https://", "eldenring.wiki.", "fextralife.com", "/Malenia">>, SnipHuge)
O1 == Result(TitleOk, <<"https://", "www.", "example.org", "/guide">>, SnipEdge)
O2 == Result(TitleOk, <<"https://", "www.", "example.net", "/tips">>, SnipOk)
\* blocked: by the host, by a later part of the URL, and in upper case
B1 == Result(TitleOk, <<"https://", "tieba.", "baidu.com", "/p/1">>, SnipOk)
B2 == Result(TitleOk, <<"https://", "hk.", "fandom.com", "/r?from=", "zhihu.com">>, SnipOk)
B3 == Result(TitleOk, <<"https://", "www.", "example.org", "/r?from=", "ZHIHU.COM">>, SnipOk)
\* not English: by the title, by the snippet
N1 == Result(TitleCjk, <<"https://", "www.", "example.org", "/cn">>, SnipOk)
N2 == Result(TitleOk, <<"https://", "www.", "example.org", "/jp">>, SnipCjk)
\* a record of the free backend that has no "href"
NoHref == [title |-> TitleOk, href |-> <<>>, body |-> SnipOk, has_href |-> FALSE]

\* what the backends answer: an error (exception, timeout, malformed body),
\* or a list of items
Reply(items) == [kind |-> "ok", items |-> items]
ErrorReply == [kind |-> "error", items |-> <<>>]
NoKeyReply == [kind |-> "nokey", items |-> <<>>]

SerperReplies ==
  {NoKeyReply, ErrorReply, Reply(<<>>), Reply(<<O1>>), Reply(<<O1, B3, O1, O1>>),
   Reply(<<N1, B1, N2>>), Reply(<<T1, B2, O1>>), Reply(<<T1, T2, T3>>)}

DdgReplies ==
  {ErrorReply, Reply(<<>>), Reply(<<O1>>), Reply(<<O2, O1, B1, O1>>),
   Reply(<<N1, B2>>), Reply(<<O1, T2, B3>>), Reply(<<T1, T2, T3>>),
   Reply(<<NoHref, T1>>)}

HtmlReplies ==
  {ErrorReply, Reply(<<>>), Reply(<<O1, N2>>), Reply(<<B1, T2, N1>>)}

\* _search_with_serper, lines 91-129
SearchWithSerper(reply) ==
  IF reply.kind # "ok" THEN <<>>
  ELSE Take(SelectSeq(reply.items, LAMBDA r : ~IsBlocked(r.href)), MaxResults)

\* _search_duckduckgo_html, lines 169-192
SearchDuckduckgoHtml(reply) ==
  IF reply.kind # "ok" THEN <<>>
  ELSE SelectSeq(Take(reply.items, MaxResults),
                 LAMBDA r : ~IsBlocked(r.href) /\ IsEnglishContent(r.title))

\* lines 147-149 and 165-167: the HTML page is scraped when the package
\* raised or gave no result
DdgFallsBackAlways(reply) == TRUE
DdgFallsBack(reply) == reply.kind # "ok" \/ reply.items = <<>>

\* _search_with_duckduckgo, lines 131-167
SearchWithDuckduckgo(reply, html) ==
  IF DdgFallsBack(reply) THEN SearchDuckduckgoHtml(html)
  ELSE SelectSeq(reply.items,
                 LAMBDA r : /\ ~IsBlocked(r.href)
                            /\ IsEnglishContent(r.title)
                            /\ IsEnglishContent(r.body))

\* lines 299 and 312
FilterEnglish(rs) ==
  SelectSeq(rs, LAMBDA r : IsEnglishContent(r.title) /\ IsEnglishContent(r.body))

\* lines 301 and 313
Trusted(filtered) == SelectSeq(filtered, LAMBDA r : IsEnglishSite(r.href))

\* lines 302 and 314
Other(filtered) ==
  SelectSeq(filtered, LAMBDA r : ~IsEnglishSite(r.href) /\ ~IsBlocked(r.href))

\* other[:2], lines 304 and 316
MaxOther == 2
\* filtered[:5], line 326
MaxBroad == 5
\* unique_results[:3], line 341
MaxFetch == 3

\* `if trusted: break`, lines 305-306 and 317-318
StopOnTrustedNever(trusted) == FALSE
StopOnTrusted(trusted) == trusted # <<>>

\* r['href'] raises KeyError for a record without the key
HrefRaises(rs) == \E i \in DOMAIN rs : ~rs[i].has_href

\* lines 331-337
RECURSIVE Deduplicate(_, _)
Deduplicate(rs, seen) ==
  IF rs = <<>> THEN <<>>
  ELSE IF Head(rs).href \in seen THEN Deduplicate(Tail(rs), seen)
       ELSE <<Head(rs)>> \o Deduplicate(Tail(rs), seen \cup {Head(rs).href})

\* the results whose pages are fetched, line 341
FetchCandidatesAll(unique) == unique
FetchCandidates(unique) == Take(unique, MaxFetch)

HollowKnight == <<"H","o","l","l","o","w"," ","K","n","i","g","h","t">>
DarkSouls    == <<"D","a","r","k"," ","S","o","u","l","s">>

SearchGames == {NewGame, HollowKnight, DarkSouls}

\* lines 274-289
SearchQueries(game, q) ==
  LET game_lower == Replace(Lower(game), <<" ">>, <<>>)
      generic == << game \o <<" ">> \o q \o <<" wiki">>,
                    game \o <<" ">> \o q \o <<" fandom">>,
                    game \o <<" ">> \o q \o <<" guide walkthrough">> >>
  IN  IF Contains(game_lower, <<"h","o","l","l","o","w">>)
      THEN << <<"site:hollowknight.fandom.com ">> \o q >> \o generic
      ELSE IF Contains(game_lower, <<"e","l","d","e","n">>)
      THEN << <<"site:eldenring.wiki.fextralife.com ">> \o q >> \o generic
      ELSE IF \/ Contains(game_lower, <<"d","a","r","k"," ","s","o","u","l","s">>)
              \/ Contains(game_lower, <<"d","a","r","k","s","o","u","l","s">>)
      THEN << <<"site:darksouls.fandom.com ">> \o q >> \o generic
      ELSE generic

\* page texts a fetch may find, before extraction
PageLong  == Txt("page-long", 5000, 0)
PageOk    == Txt("page", 250, 0)
PageShort == Txt("page-short", 100, 0)
PageCjk   == Txt("page-cjk", 300, 300)
PageEmpty == Txt("page-empty", 0, 0)

\* _extract_wiki_content: the cleaned text, cut at 3000 characters (line 265)
ExtractWikiContent(page) ==
  [page EXCEPT !.len = Min(page.len, MaxContentLength),
               !.non_english = Min(page.non_english, MaxContentLength)]

\* a fetch raises, or answers with a status and a page
FetchOutcomes ==
  {[status |-> 0, page |-> PageEmpty], [status |-> 404, page |-> PageOk]}
    \cup {[status |-> 200, page |-> p] :
            p \in {PageLong, PageOk, PageShort, PageCjk, PageEmpty}}

\* lines 342-375 for one result: the documents it adds to processed_results
ProcessResultAnyLength(result, f) ==
  LET extracted == ExtractWikiContent(f.page)
      content == IF f.status = 200 /\ IsEnglishContent(extracted)
                 THEN extracted ELSE result.body
  IN  IF IsEnglishContent(content)
      THEN <<[title |-> result.title, href |-> result.href, content |-> content]>>
      ELSE <<>>
ProcessResult(result, f) ==
  LET snippet == result.body
      extracted == ExtractWikiContent(f.page)
      use_extracted == /\ f.status = 200
                       /\ extracted.len > 200
                       /\ IsEnglishContent(extracted)
      skip == /\ f.status = 200
              /\ ~use_extracted
              /\ ~IsEnglishContent(extracted)
              /\ ~IsEnglishContent(snippet)
      content == IF use_extracted THEN extracted ELSE snippet
  IN  IF skip THEN <<>>
      ELSE IF content.len > 50 /\ IsEnglishContent(content)
           THEN <<[title |-> result.title, href |-> result.href, content |-> content]>>
           ELSE <<>>

SearchReturned(docs) == [raised |-> FALSE, docs |-> docs]

\* history: a URL holds a blocked domain, in any letter case, at any place
HasBlockedDomain(url) ==
  \E i \in DOMAIN url, b \in BlockedDomains : LowerAtom(url[i]) = b

OffersBlocked(items) == \E i \in DOMAIN items : HasBlockedDomain(items[i].href)

\* history: the items of the free backend that were looked at
DdgOffer(reply, html) ==
  IF reply.kind # "ok" \/ reply.items = <<>> THEN html.items ELSE reply.items

\* the handler of lines 379-381
SearchExcept == SearchReturned(<<>>)

NoSearchOutcome == [raised |-> FALSE, docs |-> <<>>]

\* history: no page was fetched yet
NoFetch == [status |-> -1, page |-> PageEmpty]

\* history: one backend call; nothing tells that it failed or gave no result,
\* others counts the non-trusted results it added to all_results
LogEntry(backend, nothing, others) ==
  [backend |-> backend, nothing |-> nothing, others |-> others]

SearchIdle ==
  /\ s_pc = "idle"
  /\ s_game = <<>>
  /\ s_query = <<>>
  /\ search_queries = <<>>
  /\ sq = 0
  /\ all_results = <<>>
  /\ unique_results = <<>>
  /\ fetch_i = 0
  /\ processed_results = <<>>
  /\ s_outcome = NoSearchOutcome
  /\ fetched = <<>>
  /\ broad = FALSE
  /\ blocked_offered = FALSE
  /\ q_log = <<>>
  /\ last_fetch = NoFetch

\* search(game_name, query) is called
SearchStart ==
  /\ s_pc = "idle"
  /\ \E g \in SearchGames, q \in Queries :
       /\ s_game' = g
       /\ s_query' = q
       /\ search_queries' = SearchQueries(g, q)
  /\ sq' = 1
  /\ s_pc' = "serper"
  /\ UNCHANGED <<all_results, unique_results, fetch_i, processed_results,
                 s_outcome, fetched, broad, blocked_offered, q_log, last_fetch>>
  /\ UNCHANGED <<routerVars, normVars>>

\* the loop of line 294 goes to its next query, or ends
NextQuery ==
  IF sq < Len(search_queries)
  THEN sq' = sq + 1 /\ s_pc' = "serper"
  ELSE sq' = sq /\ s_pc' = "after"

\* lines 296-306: the paid backend for the query at hand
SerperStep ==
  /\ s_pc = "serper"
  /\ \E reply \in SerperReplies :
       /\ LET res == SearchWithSerper(reply)
              filtered == FilterEnglish(res)
              trusted == Trusted(filtered)
              other == Other(filtered)
          IN  IF res = <<>>
              THEN /\ s_pc' = "ddg"
                   /\ q_log' = <<LogEntry("serper", TRUE, 0)>>
                   /\ UNCHANGED all_results
              ELSE /\ all_results' = all_results \o trusted \o Take(other, MaxOther)
                   /\ q_log' = <<LogEntry("serper", FALSE, Len(Take(other, MaxOther)))>>
                   /\ s_pc' = IF StopOnTrusted(trusted) THEN "after" ELSE "ddg"
       /\ blocked_offered' = (blocked_offered \/ OffersBlocked(reply.items))
  /\ UNCHANGED <<s_game, s_query, search_queries, sq, unique_results, fetch_i,
                 processed_results, s_outcome, fetched, broad, last_fetch>>
  /\ UNCHANGED <<routerVars, normVars>>

\* lines 308-318: the free backend, with its HTML fallback
DdgStep ==
  /\ s_pc = "ddg"
  /\ \E reply \in DdgReplies, html \in HtmlReplies :
       /\ LET res == SearchWithDuckduckgo(reply, html)
              filtered == FilterEnglish(res)
              trusted == Trusted(filtered)
              other == Other(filtered)
              nothing == reply.kind # "ok" \/ reply.items = <<>>
              scraped == IF DdgFallsBack(reply)
                         THEN <<LogEntry("html", SearchDuckduckgoHtml(html) = <<>>, 0)>>
                         ELSE <<>>
          IN  IF res = <<>>
              THEN /\ NextQuery
                   /\ q_log' = Append(q_log, LogEntry("ddg", nothing, 0)) \o scraped
                   /\ UNCHANGED <<all_results, s_outcome>>
              ELSE IF HrefRaises(filtered)
                   THEN /\ s_outcome' = SearchExcept
                        /\ s_pc' = "done"
                        /\ q_log' = Append(q_log, LogEntry("ddg", nothing, 0)) \o scraped
                        /\ UNCHANGED <<all_results, sq>>
                   ELSE /\ all_results' = all_results \o trusted \o Take(other, MaxOther)
                        /\ q_log' = Append(q_log, LogEntry("ddg", nothing,
                                                           Len(Take(other, MaxOther))))
                                       \o scraped
                        /\ IF StopOnTrusted(trusted)
                           THEN s_pc' = "after" /\ sq' = sq
                           ELSE NextQuery
                        /\ UNCHANGED s_outcome
       /\ blocked_offered' = (blocked_offered \/ OffersBlocked(DdgOffer(reply, html)))
  /\ UNCHANGED <<s_game, s_query, search_queries, unique_results, fetch_i,
                 processed_results, fetched, broad, last_fetch>>
  /\ UNCHANGED <<routerVars, normVars>>

\* lines 320-326: nothing was found, one broader query is sent
BroadSearch ==
  /\ s_pc = "after"
  /\ all_results = <<>>
  /\ \E reply \in DdgReplies, html \in HtmlReplies :
       /\ LET res == SearchWithDuckduckgo(reply, html)
          IN  all_results' = Take(FilterEnglish(res), MaxBroad)
       /\ blocked_offered' = (blocked_offered \/ OffersBlocked(DdgOffer(reply, html)))
  /\ s_pc' = "dedupe"
  /\ broad' = TRUE
  /\ UNCHANGED <<s_game, s_query, search_queries, sq, unique_results, fetch_i,
                 processed_results, s_outcome, fetched, q_log, last_fetch>>
  /\ UNCHANGED <<routerVars, normVars>>

\* lines 328-337: an empty list is returned, or the results are deduplicated
DeduplicateStep ==
  /\ \/ s_pc = "dedupe"
     \/ s_pc = "after" /\ all_results # <<>>
  /\ IF all_results = <<>>
     THEN /\ s_outcome' = SearchReturned(<<>>)
          /\ s_pc' = "done"
          /\ UNCHANGED <<unique_results, fetch_i>>
     ELSE IF HrefRaises(all_results)
          THEN /\ s_outcome' = SearchExcept
               /\ s_pc' = "done"
               /\ UNCHANGED <<unique_results, fetch_i>>
          ELSE /\ unique_results' = Deduplicate(all_results, {})
               /\ fetch_i' = 1
               /\ s_pc' = "fetch"
               /\ UNCHANGED s_outcome
  /\ q_log' = <<>>
  /\ UNCHANGED <<s_game, s_query, search_queries, sq, all_results,
                 processed_results, fetched, broad, blocked_offered, last_fetch>>
  /\ UNCHANGED <<routerVars, normVars>>

\* lines 341-375: one page is fetched and turned into a document, or not
FetchStep ==
  /\ s_pc = "fetch"
  /\ fetch_i <= Len(FetchCandidates(unique_results))
  /\ \E f \in FetchOutcomes :
       /\ processed_results' =
            processed_results \o ProcessResult(FetchCandidates(unique_results)[fetch_i], f)
       /\ last_fetch' = f
  /\ fetched' = Append(fetched, FetchCandidates(unique_results)[fetch_i].href)
  /\ fetch_i' = fetch_i + 1
  /\ UNCHANGED <<s_pc, s_game, s_query, search_queries, sq, all_results,
                 unique_results, s_outcome, broad, blocked_offered, q_log>>
  /\ UNCHANGED <<routerVars, normVars>>

\* line 377
SearchReturn ==
  /\ s_pc = "fetch"
  /\ fetch_i > Len(FetchCandidates(unique_results))
  /\ s_outcome' = SearchReturned(processed_results)
  /\ s_pc' = "done"
  /\ UNCHANGED <<s_game, s_query, search_queries, sq, all_results,
                 unique_results, fetch_i, processed_results, fetched, broad,
                 blocked_offered, q_log, last_fetch>>
  /\ UNCHANGED <<routerVars, normVars>>

-----------------------------------------------------------------------------
(* Normalization of a game name: _run line 49, then index_documents line 136 *)

NameChars == {"H", "h", "K", " ", "-", "_"}

\* the game names of at most MaxLen characters
NameStrings == UNION {[1..n -> NameChars] : n \in 0..MaxLen}

NormIdle ==
  /\ n_pc = "idle"
  /\ n_name = <<>>
  /\ n_key = <<>>
  /\ n_index_key = <<>>

\* _run normalizes the name it was given
RunNormalize ==
  /\ n_pc = "start"
  /\ n_key' = Normalize(n_name)
  /\ n_pc' = "run"
  /\ UNCHANGED <<n_name, n_index_key>>
  /\ UNCHANGED <<routerVars, searchVars>>

\* index_documents normalizes the key _run passes to it
IndexNormalize ==
  /\ n_pc = "run"
  /\ n_index_key' = Normalize(n_key)
  /\ n_pc' = "index"
  /\ UNCHANGED <<n_name, n_key>>
  /\ UNCHANGED <<routerVars, searchVars>>

-----------------------------------------------------------------------------
(* Specifications *)

vars == <<routerVars, searchVars, normVars>>

\* the retrieval router, the aggregator being one of its inputs
Init == RouterInit /\ SearchIdle /\ NormIdle

Next ==
  \/ RunStart
  \/ ListCollections
  \/ ProbeLocal
  \/ WebSearch
  \/ IndexWebResults
  \/ Requery
  \/ ChooseProvider
  \/ IndexCall

Spec == Init /\ [][Next]_vars

\* the web search aggregator on its own
SearchInit ==
  /\ RouterInit
  /\ embeddings = TRUE
  /\ onDuplicateId = "skip"
  /\ SearchIdle
  /\ NormIdle

SearchNext ==
  \/ SearchStart
  \/ SerperStep
  \/ DdgStep
  \/ BroadSearch
  \/ DeduplicateStep
  \/ FetchStep
  \/ SearchReturn

SpecSearch == SearchInit /\ [][SearchNext]_vars

\* the normalization of game names on its own
NormInit ==
  /\ RouterInit
  /\ embeddings = TRUE
  /\ onDuplicateId = "skip"
  /\ SearchIdle
  /\ n_pc = "start"
  /\ n_name \in NameStrings
  /\ n_key = <<>>
  /\ n_index_key = <<>>

NormNext ==
  \/ RunNormalize
  \/ IndexNormalize

SpecNormalize == NormInit /\ [][NormNext]_vars


-----------------------------------------------------------------------------
(* Reading a result text: the provenance of an outcome is derived from it *)

\* positions of the passage headers "**[<label> <i>: <source>]**"
Headers(text) ==
  SelectSeq([i \in 1..Len(text) |-> i], LAMBDA i : text[i] = "**[")

\* text is a list of passages, all labelled label and numbered 1, 2, ...
IsPassages(text, label) ==
  LET hs == Headers(text)
  IN  /\ hs # <<>>
      /\ hs[1] = 1
      /\ \A k \in DOMAIN hs :
           /\ text[hs[k] + 1] = label
           /\ text[hs[k] + 3] = NumTok[k]

\* some passage header of text names source u
Cites(text, u) ==
  \E i \in DOMAIN text :
    /\ text[i] = "**["
    /\ SubSeq(text, i + 5, i + 4 + Len(u)) = u
    /\ i + 5 + Len(u) \in DOMAIN text
    /\ text[i + 5 + Len(u)] = "]**\n"

IsLocal(o)   == ~o.raised /\ IsPassages(o.text, "Local Source")
IsWeb(o)     == ~o.raised /\ IsPassages(o.text, "Web Index")
IsUnknown(o) == ~o.raised /\ o.text # <<>> /\ Headers(o.text) = <<>>

RunReturned == pc = "returned"

MinDistance(res) ==
  CHOOSE m \in {res[i].distance : i \in DOMAIN res} :
    \A i \in DOMAIN res : m <= res[i].distance

SearchCalls == SelectSeq(calls, LAMBDA c : c.op = "search")

\* the local probe of this call ended in a miss
ProbeMissed ==
  \/ probe = "absent"
  \/ probe = "returned" /\ probe_results = <<>>
  \/ probe = "returned" /\ probe_results # <<>> /\ MinDistance(probe_results) > 45

-----------------------------------------------------------------------------
(* Claims about the retrieval router *)

\* C1: whatever the game name and the query, and whichever of the collection
\* listing, the similarity query, the web aggregator and the indexing step
\* fails, _run hands a non-empty text to its caller and never an exception.
C1_RunNeverRaises ==
  RunReturned => (~outcome.raised /\ outcome.text # <<>>)

\* C1 witness: _run has returned although the indexing step and the query
\* that follows it both failed.
C1_Witness ==
  RunReturned /\ {"index", "requery"} \subseteq faults

\* C2: when the collection exists and the probe returns at least one passage,
\* _run returns the Local outcome (at most 5 passages, labelled Local Source,
\* numbered from 1) exactly when the best returned distance is <= 0.45.
C2_LocalIffWithinThreshold ==
  (RunReturned /\ probe = "returned" /\ probe_results # <<>>) =>
     /\ IsLocal(outcome) <=> (MinDistance(probe_results) <= 45)
     /\ IsLocal(outcome) =>
          /\ Len(Headers(outcome.text)) = Len(probe_results)
          /\ Len(Headers(outcome.text)) <= 5
          /\ outcome.text = FormatResults("Local Source", probe_results)

\* C2 witness: a Local outcome whose best distance is exactly 0.45, taken from
\* a collection that holds more passages than one query returns.
C2_Witness ==
  /\ RunReturned
  /\ IsLocal(outcome)
  /\ MinDistance(probe_results) = 45
  /\ Len(passages[collection_name]) > 5
  /\ Len(Headers(outcome.text)) = 5

\* C3: after a miss of the local probe (no collection, no passage returned, or
\* best distance > 0.45) the web aggregator is invoked exactly once, with the
\* original game name and the query; and when it returned documents, indexing
\* for the normalized key is invoked before the collection is queried again.
C3_WebOnMiss ==
  (pc \in {"index", "requery", "returned"} /\ ProbeMissed) =>
     /\ Len(SearchCalls) = 1
     /\ SearchCalls[1].game = game_name
     /\ SearchCalls[1].query = query
     /\ (web_results # <<>> /\ pc \in {"requery", "returned"}) =>
          \E i \in DOMAIN calls :
            /\ calls[i] = Call("index", Normalize(game_name), <<>>)
            /\ \E s \in 1..(i - 1) : calls[s].op = "search"
            /\ \A j \in DOMAIN calls :
                 (calls[j].op = "query" /\ j > 2) => j > i

\* C3 witness: the collection existed but was empty, the aggregator found
\* documents, they were indexed and the collection was queried again.
C3_Witness ==
  /\ RunReturned
  /\ probe = "returned"
  /\ probe_results = <<>>
  /\ web_results # <<>>
  /\ game_name = NewGame
  /\ calls[Len(calls)].op = "query"

NoFault == faults = {} /\ embeddings

KeyOf(c) == SubSeq(c, Len(GamePrefix) + 1, Len(c))

\* C5: when the web path is taken and the aggregator returns no document,
\* the outcome is Unknown, its message names the normalized key and lists the
\* keys of the collections known at that time.
C5_NoResultsMessage ==
  (/\ RunReturned
   /\ Len(SearchCalls) = 1
   /\ "search" \notin faults
   /\ web_results = <<>>) =>
     /\ IsUnknown(outcome)
     /\ Provider(outcome.text) = "gemini"
     /\ outcome.text =
          <<"No local documentation indexed for '">> \o Normalize(game_name)
            \o <<"' and web search returned no results. Available games: ">>
            \o Join([i \in DOMAIN collections |-> KeyOf(collections[i])], <<", ">>)
            \o <<". ">>

\* an index_documents call made on its own has just ended
IndexCallEnded == pc = "idle" /\ calls # <<>> /\ calls[1].op = "index"

Holds(ps, chunk) ==
  \E i \in DOMAIN ps : ps[i].doc = chunk.doc /\ ps[i].metadata = chunk.metadata

\* C6: indexing is additive: after a second index_documents call for a game,
\* with other documents, the passages of both batches are in the collection.
C6_IndexingAdditive ==
  (IndexCallEnded /\ NoFault /\ passages_before[collection_name] # <<>>) =>
     LET new == BuildChunks(Normalize(game_name), Contents(web_results),
                            Hrefs(web_results), 1, <<>>)
     IN  /\ \A i \in DOMAIN passages_before[collection_name] :
              Holds(passages[collection_name], passages_before[collection_name][i])
         /\ \A j \in DOMAIN new : Holds(passages[collection_name], new[j])

\* a determine_provider_and_search call has just ended
ProviderChosen == pc = "idle" /\ calls # <<>> /\ calls[1].op = "list"

\* C7: the provider is ollama whenever the tool's result is a Local hit,
\* whatever the passages say, and gemini for a Web or any other result; the
\* text comes back unchanged.
C7_ProviderFollowsProvenance ==
  ProviderChosen =>
     /\ IsLocal(outcome) => provider.name = "ollama"
     /\ ~IsLocal(outcome) => provider.name = "gemini"
     /\ provider.text = outcome.text

\* an indexing step, inside _run or called on its own, has just ended
IndexingEnded == pc = "requery" \/ IndexCallEnded

\* the passages the indexing step of this call built, with their ids
GeneratedChunks ==
  BuildChunks(Normalize(game_name), Contents(web_results), Hrefs(web_results),
              1, <<>>)

\* C12: every passage id an index_documents call generates differs from the
\* ids the collection already holds and from the other ids of the same call.
C12_PassageIdsUnique ==
  (IndexingEnded /\ "index" \notin faults) =>
     /\ Cardinality(Ids(GeneratedChunks)) = Len(GeneratedChunks)
     /\ Ids(GeneratedChunks) \cap Ids(passages_before[collection_name]) = {}

\* the outcome is the error message of the handler of _run
IsErrorOutcome(o) ==
  ~o.raised /\ StartsWith(o.text, <<"Error searching local docs: ">>)

\* C18: when the embedding function could not be loaded, so that the query
\* of an existing collection fails, _run takes the probe for a miss and goes
\* on to the web aggregator instead of ending with an error outcome.
C18_NoEmbeddingsFallsBackToWeb ==
  (RunReturned /\ ~embeddings /\ probe = "raised" /\ "list" \notin faults) =>
     /\ Len(SearchCalls) = 1
     /\ ~IsErrorOutcome(outcome)

\* C19: when a query of the store or the indexing raised during _run, in any
\* state of the store, the outcome is an explanatory message of provenance
\* Unknown, never a Local or a Web result.
C19_ExceptionGivesUnknown ==
  (RunReturned /\ faults \cap {"probe", "index", "requery"} # {}) =>
     /\ IsUnknown(outcome)
     /\ ~IsLocal(outcome)
     /\ ~IsWeb(outcome)

\* C20: a Web outcome comes with at least one passage added to the game's
\* collection during the same call.
C20_WebOutcomeHasNewPassage ==
  (RunReturned /\ IsWeb(outcome)) =>
     Len(passages[collection_name]) > Len(passages_before[collection_name])

\* _run is running, or starts with this step
InRun == pc # "idle" \/ pc' = "list"

IndexCalls == SelectSeq(calls, LAMBDA c : c.op = "index")

\* C21: _run changes the store only on the web path, after the aggregator
\* returned at least one document: a Local hit comes without any aggregator
\* call and leaves every collection as it was, and when the aggregator
\* returns no document no collection is created or changed.
C21_StoreChangesOnlyAfterWebResults ==
  /\ [][InRun => (\/ UNCHANGED <<collections, passages>>
                  \/ /\ pc = "index"
                     /\ web_results # <<>>
                     /\ Len(SearchCalls) = 1)]_vars
  /\ []((RunReturned /\ IsLocal(outcome)) =>
          /\ SearchCalls = <<>>
          /\ IndexCalls = <<>>
          /\ passages = passages_before)
  /\ []((RunReturned /\ Len(SearchCalls) = 1 /\ web_results = <<>>) =>
          /\ IndexCalls = <<>>
          /\ passages = passages_before
          /\ "search" \notin faults => collections = existing_collections)

\* C21 witness: the aggregator found nothing for a game whose collection
\* holds passages, and _run returned.
C21_Witness ==
  /\ RunReturned
  /\ probe = "returned"
  /\ probe_results # <<>>
  /\ Len(SearchCalls) = 1
  /\ "search" \notin faults
  /\ web_results = <<>>
  /\ passages = passages_before
  /\ collections = existing_collections

-----------------------------------------------------------------------------
(* Claims about the web search aggregator *)

SearchDone == s_pc = "done"

\* the accumulated results, each URL at its first place only
FirstSeen(rs) ==
  LET first == SelectSeq([i \in 1..Len(rs) |-> i],
                         LAMBDA i : \A j \in 1..(i - 1) : rs[j].href # rs[i].href)
  IN  [k \in 1..Len(first) |-> rs[first[k]]]

WithHref(rs) == SelectSeq(rs, LAMBDA r : r.has_href)

FirstThree == SubSeq(FirstSeen(WithHref(all_results)), 1,
                     Min(3, Len(FirstSeen(WithHref(all_results)))))

\* a is b with some elements left out
RECURSIVE IsSubsequence(_, _)
IsSubsequence(a, b) ==
  IF a = <<>> THEN TRUE
  ELSE IF b = <<>> THEN FALSE
       ELSE IF Head(a) = Head(b) THEN IsSubsequence(Tail(a), Tail(b))
            ELSE IsSubsequence(a, Tail(b))

DocHrefs(docs) == [i \in DOMAIN docs |-> docs[i].href]

\* C8: search returns at most 3 documents and fetches at most 3 pages; the
\* returned documents come from the first 3 unique accumulated results, in
\* their accumulated order.
C8_AtMostThreeDocuments ==
  /\ Len(fetched) <= 3
  /\ Len(processed_results) <= 3
  /\ Len(s_outcome.docs) <= 3
  /\ IsSubsequence(fetched, DocHrefs(FirstThree))
  /\ SearchDone => IsSubsequence(DocHrefs(s_outcome.docs), DocHrefs(FirstThree))

\* C8 witness: four unique results were accumulated and three documents came
\* back.
C8_Witness ==
  /\ SearchDone
  /\ Len(unique_results) > 3
  /\ Len(s_outcome.docs) = 3

\* C9: a failing backend call or page fetch does not stop the search: search
\* never raises, and every result accumulated from the other backends (among
\* the first 3 unique ones, its snippet usable) still gives a returned document.
C9_FailuresDoNotAbort ==
  SearchDone =>
     /\ ~s_outcome.raised
     /\ \A i \in DOMAIN FirstThree :
          (IsEnglishContent(FirstThree[i].body) /\ FirstThree[i].body.len > 50) =>
             \E k \in DOMAIN s_outcome.docs :
               s_outcome.docs[k].href = FirstThree[i].href

\* C10: no returned document has a URL that holds a blocked domain, wherever
\* in the URL it stands, on any path of the search.
C10_NoBlockedUrlReturned ==
  /\ \A k \in DOMAIN s_outcome.docs : ~HasBlockedDomain(s_outcome.docs[k].href)
  /\ \A k \in DOMAIN processed_results : ~HasBlockedDomain(processed_results[k].href)

\* C10 witness: documents came back from the last-resort query although a
\* backend had offered a blocked URL.
C10_Witness ==
  /\ SearchDone
  /\ broad
  /\ blocked_offered
  /\ s_outcome.docs # <<>>


\* C13: for a query, the free backend is called only if the paid backend gave
\* no result or failed, and the HTML page is scraped only if the free backend
\* gave nothing or failed.
C13_BackendsInOrder ==
  \A i \in DOMAIN q_log :
    /\ q_log[i].backend = "ddg" =>
         \E j \in 1..(i - 1) : q_log[j].backend = "serper" /\ q_log[j].nothing
    /\ q_log[i].backend = "html" =>
         /\ i > 1
         /\ q_log[i - 1].backend = "ddg"
         /\ q_log[i - 1].nothing

\* a query has yielded a trusted result
TrustedFound == Trusted(all_results) # <<>>

\* C14: once a query has yielded a trusted result, no backend call is pending
\* or made for a later query, and the broader last-resort query is not sent.
C14_StopAfterTrusted ==
  /\ [](TrustedFound => s_pc \notin {"serper", "ddg"})
  /\ [][TrustedFound => (broad' = broad /\ all_results' = all_results)]_vars

\* C14 witness: the first query gave a trusted result and the search ended
\* without trying the other queries.
C14_Witness ==
  /\ SearchDone
  /\ TrustedFound
  /\ sq = 1
  /\ Len(search_queries) > 1
  /\ ~broad
  /\ s_outcome.docs # <<>>

RECURSIVE OthersAdded(_)
OthersAdded(log) ==
  IF log = <<>> THEN 0 ELSE Head(log).others + OthersAdded(Tail(log))

\* C15: for one query, at most 2 non-trusted results are added to the
\* accumulated results, whatever the backends return.
C15_AtMostTwoOthersPerQuery ==
  OthersAdded(q_log) <= 2

\* a page fetch has acted: the result it was for, and the documents made of it
FetchActed == last_fetch # NoFetch /\ fetch_i > 1
LastResult == FetchCandidates(unique_results)[fetch_i - 1]
LastDocs == SelectSeq(processed_results, LAMBDA d : d.href = LastResult.href)

\* the text extracted from the page of the last fetch is taken as the content
ExtractedUsable ==
  /\ last_fetch.status = 200
  /\ ExtractWikiContent(last_fetch.page).len > 200
  /\ IsEnglishContent(ExtractWikiContent(last_fetch.page))

\* C16: every returned document has a content of more than 50 characters
\* that passes the language filter; the content is the extracted page text
\* only when the fetch answered 200 and the extracted text is longer than 200
\* characters and passes the filter, and the snippet otherwise; a result whose
\* extracted text and snippet both fail the filter gives no document.
C16_ContentRules ==
  /\ \A k \in DOMAIN processed_results :
       /\ processed_results[k].content.len > 50
       /\ IsEnglishContent(processed_results[k].content)
  /\ SearchDone => s_outcome.docs \in {<<>>, processed_results}
  /\ FetchActed =>
       /\ Len(LastDocs) <= 1
       /\ \A k \in DOMAIN LastDocs :
            LastDocs[k].content =
              IF ExtractedUsable THEN ExtractWikiContent(last_fetch.page)
                                 ELSE LastResult.body
       /\ (/\ last_fetch.status = 200
           /\ ~IsEnglishContent(ExtractWikiContent(last_fetch.page))
           /\ ~IsEnglishContent(LastResult.body)) => LastDocs = <<>>
       /\ (ExtractedUsable \/ (LastResult.body.len > 50
                                /\ IsEnglishContent(LastResult.body)))
            => Len(LastDocs) = 1

\* C16 witness: a page answered 200 with too short a text, and the document
\* carries the snippet.
C16_Witness ==
  /\ FetchActed
  /\ last_fetch = [status |-> 200, page |-> PageShort]
  /\ Len(LastDocs) = 1
  /\ LastDocs[1].content = SnipOk

\* C17: the content of every returned document is at most 3000 characters
\* long, be it extracted page text or the snippet.
C17_ContentCapped ==
  /\ \A k \in DOMAIN processed_results : processed_results[k].content.len <= 3000
  /\ \A k \in DOMAIN s_outcome.docs : s_outcome.docs[k].content.len <= 3000

-----------------------------------------------------------------------------
(* Claims about the normalization of game names *)

HollowKnightHyphen == <<"h","o","l","l","o","w","-","k","n","i","g","h","t">>
HollowKnightKey    == <<"h","o","l","l","o","w","_","k","n","i","g","h","t">>

Separators == {" ", "-", "_"}

\* two characters that differ by letter case or by the separator used
SameChar(a, b) ==
  \/ a \in Separators /\ b \in Separators
  \/ LowerChar(a) = LowerChar(b)

\* C11: normalization is idempotent and does not tell apart letter cases nor
\* the separators space, hyphen and underscore; the key _run computes and
\* index_documents normalizes again names the same collection.
C11_NormalizeIdempotent ==
  /\ Normalize(HollowKnight) = HollowKnightKey
  /\ Normalize(HollowKnightHyphen) = HollowKnightKey
  /\ Normalize(HollowKnightKey) = HollowKnightKey
  /\ n_pc \in {"run", "index"} =>
       \A i \in DOMAIN n_name, c \in NameChars :
         SameChar(n_name[i], c) => Normalize([n_name EXCEPT ![i] = c]) = n_key
  /\ n_pc = "index" =>
       /\ n_index_key = n_key
       /\ CollectionName(n_index_key) = CollectionName(n_key)

\* C11 witness: a name in upper case with a hyphen went through both
\* normalizations.
C11_Witness ==
  /\ n_pc = "index"
  /\ n_name = <<"H", "-", "K">>
  /\ n_index_key = <<"h", "_", "k">>

====
